---- MODULE Spec2Model ----
(***************************************************************************)
(* Model of the plaza-bonita-hook worker (src/src/index.ts): a scheduled   *)
(* job that asks storepoint for today's business hours, computes how long  *)
(* to wait until the opening time, reads the day counter from D1, waits,   *)
(* posts the Discord message and updates the counter.                      *)
(*                                                                         *)
(* Time is in milliseconds, counted from local midnight (America/          *)
(* Los_Angeles) of the opening day 2024-06-22, a Saturday.  Strings that   *)
(* the code parses or formats are sequences of one-character strings.      *)
(***************************************************************************)
EXTENDS Integers, Sequences, FiniteSets, TLC

(***************************************************************************)
(* Bounds of the model.                                                    *)
(***************************************************************************)
\* last calendar day (0 = the opening day) on which an invocation may start
MaxDay == 2
\* an invocation is only triggered while the stored counter is below this
MaxCounter == 11

(***************************************************************************)
(* Program constants (index.ts:12-15).                                     *)
(***************************************************************************)
PLAZA_BONITA_ID == 39156327
FALLBACK_HOUR == 10
FALLBACK_TIMEOUT == 3 * 60 * 1000

MsPerMinute == 60 * 1000
MsPerHour == 60 * MsPerMinute
MsPerDay == 24 * MsPerHour

\* DateTime.fromISO("2024-06-22T10:00:00.000-07:00"), as an instant
OPENING_DATE == 10 * MsPerHour

(***************************************************************************)
(* JavaScript values: undefined, null, NaN and numbers that may be absent. *)
(***************************************************************************)
Undefined == [tag |-> "undefined"]
Null == [tag |-> "null"]
NaN == [tag |-> "NaN"]
Num(n) == [tag |-> "number", value |-> n]
IsNum(v) == v.tag = "number"

\* the ?? operator: the right operand only when the left is null or undefined
Coalesce(a, b) == IF a = Undefined \/ a = Null THEN b ELSE a

(***************************************************************************)
(* Strings as character sequences.                                         *)
(***************************************************************************)
DigitChars == <<"0", "1", "2", "3", "4", "5", "6", "7", "8", "9">>
IsDigit(c) == \E i \in 1..10 : DigitChars[i] = c
DigitValue(c) == (CHOOSE i \in 1..10 : DigitChars[i] = c) - 1

\* String(n) for a non-negative integer n
RECURSIVE NumberToString(_)
NumberToString(n) ==
    IF n < 10 THEN <<DigitChars[n + 1]>>
    ELSE NumberToString(n \div 10) \o <<DigitChars[(n % 10) + 1]>>

\* the integer a string of digits denotes
RECURSIVE StringToNumber(_)
StringToNumber(s) ==
    IF Len(s) = 0 THEN 0
    ELSE 10 * StringToNumber(SubSeq(s, 1, Len(s) - 1)) + DigitValue(s[Len(s)])

IsAt(s, sep, i) ==
    /\ i + Len(sep) - 1 <= Len(s)
    /\ SubSeq(s, i, i + Len(sep) - 1) = sep

\* String.prototype.split with a non-empty string separator
RECURSIVE SplitFrom(_, _, _, _)
SplitFrom(s, sep, i, cur) ==
    IF i > Len(s) THEN <<cur>>
    ELSE IF IsAt(s, sep, i) THEN <<cur>> \o SplitFrom(s, sep, i + Len(sep), <<>>)
    ELSE SplitFrom(s, sep, i + 1, Append(cur, s[i]))

Split(s, sep) == SplitFrom(s, sep, 1, <<>>)

\* String.prototype.trim
RECURSIVE TrimStart(_)
TrimStart(s) ==
    IF Len(s) > 0 /\ s[1] = " " THEN TrimStart(Tail(s)) ELSE s

RECURSIVE TrimEnd(_)
TrimEnd(s) ==
    IF Len(s) > 0 /\ s[Len(s)] = " " THEN TrimEnd(SubSeq(s, 1, Len(s) - 1)) ELSE s

Trim(s) == TrimEnd(TrimStart(s))

(***************************************************************************)
(* luxon DateTime, as far as the program uses it.                          *)
(***************************************************************************)
\* a DateTime in the zone: an instant, or invalid
ValidDateTime(ts) == [isValid |-> TRUE, ts |-> ts]
InvalidDateTime == [isValid |-> FALSE]

\* the meridiem a two-character token denotes (matched case-insensitively)
IsAM(m) == m \in {<<"a", "m">>, <<"A", "M">>, <<"A", "m">>, <<"a", "M">>}
IsPM(m) == m \in {<<"p", "m">>, <<"P", "M">>, <<"P", "m">>, <<"p", "M">>}

\* the fields of a parsed time of day; an invalid DateTime reads as NaN
ParsedTime(h) == [isValid |-> TRUE, hour |-> Num(h), minute |-> Num(0),
                  second |-> Num(0), millisecond |-> Num(0)]
InvalidTime == [isValid |-> FALSE, hour |-> NaN, minute |-> NaN,
                second |-> NaN, millisecond |-> NaN]

\* the hour of a 12-hour clock reading h with the given meridiem
To24Hour(h, m) ==
    IF IsPM(m) /\ h < 12 THEN h + 12
    ELSE IF IsAM(m) /\ h = 12 THEN 0
    ELSE h

\* the result of matching one or two digits `sep` am|pm against the whole text
ParseHourMeridiem(text, sep) ==
    LET n == Len(text)
        nd == n - Len(sep) - 2
        digits == SubSeq(text, 1, nd)
        mid == SubSeq(text, nd + 1, nd + Len(sep))
        mer == SubSeq(text, n - 1, n)
    IN IF /\ nd \in 1..2
          /\ \A i \in 1..nd : IsDigit(digits[i])
          /\ mid = sep
          /\ IsAM(mer) \/ IsPM(mer)
          /\ To24Hour(StringToNumber(digits), mer) \in 0..24
       THEN ParsedTime(To24Hour(StringToNumber(digits), mer))
       ELSE InvalidTime

\* DateTime.fromFormat(text, fmt) for the two formats the program uses
fromFormat(text, fmt) ==
    IF fmt = "ha" THEN ParseHourMeridiem(text, <<>>)
    ELSE ParseHourMeridiem(text, <<" ">>)

\* DateTime#set({hour, minute, second, millisecond}): an invalid DateTime is
\* returned as is; a NaN field makes luxon throw
SetThrows(dt, h, mi, s, ms) ==
    dt.isValid /\ (h = NaN \/ mi = NaN \/ s = NaN \/ ms = NaN)

SetTime(dt, h, mi, s, ms) ==
    IF ~dt.isValid THEN dt
    ELSE ValidDateTime((dt.ts \div MsPerDay) * MsPerDay
                        + h.value * MsPerHour + mi.value * MsPerMinute
                        + s.value * 1000 + ms.value)

\* dt.diffNow().toObject().milliseconds
DiffNowMilliseconds(dt, now) ==
    IF dt.isValid THEN Num(dt.ts - now) ELSE Undefined

WeekdayNames == <<"monday", "tuesday", "wednesday", "thursday", "friday",
                  "saturday", "sunday">>

\* dt.weekdayLong.toLowerCase() of a valid DateTime: day 0 is a Saturday
WeekdayLong(dt) == WeekdayNames[(((dt.ts \div MsPerDay) + 5) % 7) + 1]

(***************************************************************************)
(* The program's functions.  A function that may throw yields Throw or     *)
(* Return(value).                                                          *)
(***************************************************************************)
Throw == [threw |-> TRUE]
Return(v) == [threw |-> FALSE, value |-> v]

\* DateTime.now().setZone("America/Los_Angeles"); zoneOk tells whether the
\* runtime knows the zone (luxon yields an invalid DateTime when it does not)
getTodayPT(now, zoneOk) ==
    IF zoneOk THEN ValidDateTime(now) ELSE InvalidDateTime

getFallbackTimeout(now, zoneOk) ==
    LET today == getTodayPT(now, zoneOk)
        openingTime == SetTime(today, Num(FALLBACK_HOUR), Num(0), Num(0), Num(0))
    IN Coalesce(DiffNowMilliseconds(openingTime, now), Num(FALLBACK_TIMEOUT))

\* Math.ceil(n / d) for d > 0
CeilDiv(n, d) == -((-n) \div d)

\* the estimate with the ceiling computed as floor + 1
getFallbackDaysOpen_FloorPlusOne(now) ==
    ((now - OPENING_DATE) \div MsPerDay + 1) + 1

\* Math.ceil(-(OPENING_DATE.diffNow('days').toObject().days ?? 0)) + 1
getFallbackDaysOpen(now) == CeilDiv(now - OPENING_DATE, MsPerDay) + 1

MessagePrefix ==
    <<"R", "o", "u", "n", "d", "1", " ", "P", "l", "a", "z", "a", " ",
      "B", "o", "n", "i", "t", "a", " ", "D", "a", "y", " ">>
MessageSuffix == <<":", " ", "S", "T", "A", "R", "T">>

getMessage(dayNumber) ==
    MessagePrefix \o NumberToString(dayNumber) \o MessageSuffix

getCurrentDayOfWeekPT(now, zoneOk) ==
    LET today == getTodayPT(now, zoneOk)
    IN IF today.isValid THEN Return(WeekdayLong(today)) ELSE Throw

\* the opening token taken without trimming the spaces around the separator
OpeningToken_NoTrim(hours) ==
    LET byDash == Split(hours, <<"-">>)
        times == IF Len(byDash) # 2 THEN Split(hours, <<"t", "o">>) ELSE byDash
    IN times[1]

\* lines 86-89: the text before the separator, trimmed
OpeningToken(hours) ==
    LET byDash == Split(hours, <<"-">>)
        times == IF Len(byDash) # 2 THEN Split(hours, <<"t", "o">>) ELSE byDash
    IN Trim(times[1])

\* lines 90-91: "ha" first, then "h a"
ParseOpening(opening) ==
    LET compact == fromFormat(opening, "ha")
    IN IF ~compact.isValid THEN fromFormat(opening, "h a") ELSE compact

getOpeningTime(hours, now, zoneOk) ==
    LET openingTime == ParseOpening(OpeningToken(hours))
        today == getTodayPT(now, zoneOk)
    IN IF SetThrows(today, openingTime.hour, openingTime.minute,
                    openingTime.second, openingTime.millisecond)
       THEN Throw
       ELSE Return(SetTime(today, openingTime.hour, openingTime.minute,
                           openingTime.second, openingTime.millisecond))

\* the body of a response that is not JSON
NotJson == [tag |-> "not_json"]

\* getBusinessHours without the resp.ok test
getBusinessHours_IgnoresStatus(outcome) ==
    IF outcome.threw THEN Undefined
    ELSE IF outcome.body = NotJson THEN Undefined
    ELSE IF ~outcome.body.success THEN Undefined
    ELSE outcome.body

\* outcome of the GET: the request rejects, or a response with a status that
\* is ok or not and a body
getBusinessHours(outcome) ==
    IF outcome.threw THEN Undefined
    ELSE IF outcome.body = NotJson THEN Undefined
    ELSE IF ~outcome.ok THEN Undefined
    ELSE IF ~outcome.body.success THEN Undefined
    ELSE outcome.body

\* getTimeout whose catch block falls back to the 10 AM timeout
getTimeout_FallbackOnThrow(data, now, zoneOk) ==
    LET weekday == getCurrentDayOfWeekPT(now, zoneOk)
    IN IF data.results = Undefined THEN getFallbackTimeout(now, zoneOk)
       ELSE IF data.results.location = Undefined
            THEN getFallbackTimeout(now, zoneOk)
       ELSE IF weekday.threw THEN getFallbackTimeout(now, zoneOk)
       ELSE IF weekday.value \notin DOMAIN data.results.location
            THEN getFallbackTimeout(now, zoneOk)
       ELSE LET hours == data.results.location[weekday.value]
                openingTime == getOpeningTime(hours, now, zoneOk)
            IN IF openingTime.threw THEN getFallbackTimeout(now, zoneOk)
               ELSE DiffNowMilliseconds(openingTime.value, now)

\* every throw inside the try block is caught and the function then returns
\* undefined
getTimeout(data, now, zoneOk) ==
    LET weekday == getCurrentDayOfWeekPT(now, zoneOk)
    IN IF data.results = Undefined THEN Undefined
       ELSE IF data.results.location = Undefined THEN Undefined
       ELSE IF weekday.threw THEN Undefined
       ELSE IF weekday.value \notin DOMAIN data.results.location THEN Undefined
       ELSE LET hours == data.results.location[weekday.value]
                openingTime == getOpeningTime(hours, now, zoneOk)
            IN IF openingTime.threw THEN Undefined
               ELSE DiffNowMilliseconds(openingTime.value, now)

\* D1: SELECT DaysOpen FROM Stores WHERE StoreId = ? ... first('DaysOpen')
SelectDaysOpen(table, id) ==
    IF id \in DOMAIN table THEN Num(table[id]) ELSE Null

\* an upsert: the row is created when the store has none
UpdateDaysOpen_Upsert(table, v, id) ==
    [s \in DOMAIN table \cup {id} |-> IF s = id THEN v ELSE table[s]]

\* D1: UPDATE Stores SET DaysOpen = ?1 WHERE StoreId = ?2
UpdateDaysOpen(table, v, id) ==
    [s \in DOMAIN table |-> IF s = id THEN v ELSE table[s]]

\* the read with || in place of ??: a stored 0 is replaced by the estimate
ResolveDay_FalsyFallback(table, now) ==
    IF PLAZA_BONITA_ID \in DOMAIN table /\ table[PLAZA_BONITA_ID] # 0
    THEN table[PLAZA_BONITA_ID]
    ELSE getFallbackDaysOpen(now)

\* the read that always uses the date estimate
ResolveDay_IgnoresStored(table, now) == getFallbackDaysOpen(now)

\* first('DaysOpen') ?? getFallbackDaysOpen()
ResolveDay(table, now) ==
    Coalesce(SelectDaysOpen(table, PLAZA_BONITA_ID),
             Num(getFallbackDaysOpen(now))).value

\* the UPDATE that binds day instead of day + 1
NextDaysOpen_NoIncrement(d) == d

\* the value bound to ?1 of the UPDATE
NextDaysOpen(d) == d + 1

\* a timer that fires at once whatever the delay
TimerDelay_Immediate(t) == 0

\* a timer that waits for the magnitude of a negative delay
TimerDelay_Absolute(t) == IF t < 0 THEN -t ELSE t

\* the delay setTimeout applies: a negative delay fires at once
TimerDelay(t) == IF t < 0 THEN 0 ELSE t

\* a dispatch that is sent again after a non-success status
PcAfterSend_RetriesOnStatus(outcome) ==
    IF outcome = "ok" THEN "PERSISTING"
    ELSE IF outcome = "rejected" THEN "SENDING"
    ELSE "ABORTED"

\* a dispatch that throws on a non-success status, as getBusinessHours does
PcAfterSend_ThrowsOnStatus(outcome) ==
    IF outcome = "ok" THEN "PERSISTING" ELSE "ABORTED"

\* where scheduled() continues after sendDiscordMessage: a response of any
\* status is only logged, a rejected request propagates out of scheduled()
PcAfterSend(outcome) == IF outcome = "threw" THEN "ABORTED" ELSE "PERSISTING"

(***************************************************************************)
(* What the collaborators may answer.                                      *)
(***************************************************************************)
HoursTexts ==
    { <<"1", "0", "A", "M", " ", "-", " ", "2", "A", "M">>,
      <<"1", "0", "a", "m", "-", "2", "a", "m">>,
      <<"1", "0", "a", "m", " ", "t", "o", " ", "2", "a", "m">>,
      <<"1", "1", " ", "a", "m", " ", "-", " ", "2", " ", "a", "m">>,
      <<"9", "a", "m", "-", "1", "2", "a", "m">>,
      <<"C", "l", "o", "s", "e", "d">> }

Weekdays == {WeekdayNames[i] : i \in 1..7}

\* hours maps: every weekday, every weekday but sunday, no weekday at all
LocationMaps ==
    { [d \in days |-> text] : days \in {Weekdays, Weekdays \ {"sunday"}},
                              text \in HoursTexts }
    \cup { [d \in {} |-> <<>>] }

ResultsValues ==
    {Undefined, [location |-> Undefined]}
    \cup { [location |-> m] : m \in LocationMaps }

Bodies ==
    {NotJson} \cup { [success |-> s, results |-> r] :
                        s \in BOOLEAN, r \in ResultsValues }

FetchOutcomes ==
    {[threw |-> TRUE]}
    \cup { [threw |-> FALSE, ok |-> o, body |-> b] : o \in BOOLEAN, b \in Bodies }

\* the notifier answers 2xx, answers another status, or cannot be reached
DispatchOutcomes == {"ok", "rejected", "threw"}
\* a D1 statement completes or rejects
DatabaseOutcomes == {"ok", "threw"}

TimesOfDay ==
    { 8 * MsPerHour + 57 * MsPerMinute, 9 * MsPerHour,
      10 * MsPerHour, 10 * MsPerHour + 30 * MsPerMinute }

StartInstants == { d * MsPerDay + t : d \in 0..MaxDay, t \in TimesOfDay }

\* the Stores table: no row for the store, or a row holding the counter
InitialTables ==
    { [s \in {} |-> 0] }
    \cup { [s \in {PLAZA_BONITA_ID} |-> c] : c \in {0, 7, 9} }

(***************************************************************************)
(* State.                                                                  *)
(***************************************************************************)
VARIABLES
    pc,         \* position of the invocation in scheduled()
    now,        \* the clock
    zoneOk,     \* whether the runtime knows America/Los_Angeles
    db,         \* the Stores table: StoreId -> DaysOpen
    resp,       \* scheduled: resp
    timeout,    \* scheduled: timeout
    day,        \* scheduled: day
    message,    \* scheduled: message
    trace,      \* calls made to collaborators in this invocation, in order
    dbAtStart,  \* the table when the invocation started
    startedAt   \* the clock when the invocation started

vars == <<pc, now, zoneOk, db, resp, timeout, day, message, trace, dbAtStart,
          startedAt>>

Terminal == {"DONE", "SKIPPED", "ABORTED"}

Init ==
    /\ pc = "IDLE"
    /\ now = 0
    /\ (zoneOk = TRUE \/ zoneOk = FALSE)
    /\ db \in InitialTables
    /\ resp = Undefined
    /\ timeout = Undefined
    /\ day = 0
    /\ message = <<>>
    /\ trace = <<>>
    /\ dbAtStart = db
    /\ startedAt = 0

\* the trigger invokes scheduled(); invocations do not overlap
Trigger ==
    /\ pc \in Terminal \cup {"IDLE"}
    /\ \A s \in DOMAIN db : db[s] < MaxCounter
    /\ \E t \in StartInstants : t >= now /\ now' = t
    /\ pc' = "FETCHING"
    /\ resp' = Undefined
    /\ timeout' = Undefined
    /\ day' = 0
    /\ message' = <<>>
    /\ trace' = <<>>
    /\ dbAtStart' = db
    /\ startedAt' = now'
    /\ UNCHANGED <<zoneOk, db>>

\* line 175: await getBusinessHours(PLAZA_BONITA_ID)
FetchHours ==
    /\ pc = "FETCHING"
    /\ \E outcome \in FetchOutcomes :
          /\ resp' = getBusinessHours(outcome)
          /\ trace' = Append(trace, [op |-> "fetch", outcome |-> outcome])
    /\ pc' = "COMPUTING"
    /\ UNCHANGED <<now, zoneOk, db, timeout, day, message, dbAtStart, startedAt>>

\* lines 176-177 and 191-193: compute the timeout and branch on it
DecideTimeout ==
    /\ pc = "COMPUTING"
    /\ timeout' = IF resp # Undefined THEN getTimeout(resp, now, zoneOk)
                  ELSE getFallbackTimeout(now, zoneOk)
    /\ pc' = IF timeout' # Undefined THEN "TIMEOUT_DECIDED" ELSE "SKIPPED"
    /\ UNCHANGED <<now, zoneOk, db, resp, day, message, trace, dbAtStart,
                   startedAt>>

\* the read followed by a timer promise that is not awaited: the dispatch
\* comes next
ReadDaysOpen_NoAwait ==
    /\ pc = "TIMEOUT_DECIDED"
    /\ \E outcome \in DatabaseOutcomes :
          /\ trace' = Append(trace, [op |-> "read", outcome |-> outcome])
          /\ IF outcome = "ok"
             THEN /\ day' = ResolveDay(db, now)
                  /\ message' = getMessage(day')
                  /\ pc' = "SENDING"
             ELSE /\ pc' = "ABORTED"
                  /\ UNCHANGED <<day, message>>
    /\ UNCHANGED <<now, zoneOk, db, resp, timeout, dbAtStart, startedAt>>

\* lines 178-181: read the counter and build the message; a rejected read
\* leaves scheduled() with an uncaught error
ReadDaysOpen ==
    /\ pc = "TIMEOUT_DECIDED"
    /\ \E outcome \in DatabaseOutcomes :
          /\ trace' = Append(trace, [op |-> "read", outcome |-> outcome])
          /\ IF outcome = "ok"
             THEN /\ day' = ResolveDay(db, now)
                  /\ message' = getMessage(day')
                  /\ pc' = "WAITING"
             ELSE /\ pc' = "ABORTED"
                  /\ UNCHANGED <<day, message>>
    /\ UNCHANGED <<now, zoneOk, db, resp, timeout, dbAtStart, startedAt>>

\* line 183: await new Promise(resolve => setTimeout(resolve, timeout))
Wait ==
    /\ pc = "WAITING"
    /\ now' = now + TimerDelay(timeout.value)
    /\ trace' = Append(trace, [op |-> "wait", delay |-> TimerDelay(timeout.value)])
    /\ pc' = "SENDING"
    /\ UNCHANGED <<zoneOk, db, resp, timeout, day, message, dbAtStart, startedAt>>

\* line 184: await sendDiscordMessage(message, ...); the response is logged
\* whatever its status, a rejected request is not caught
SendDiscordMessage ==
    /\ pc = "SENDING"
    /\ \E outcome \in DispatchOutcomes :
          /\ trace' = Append(trace, [op |-> "send", outcome |-> outcome,
                                     content |-> message, at |-> now])
          /\ pc' = PcAfterSend(outcome)
    /\ UNCHANGED <<now, zoneOk, db, resp, timeout, day, message, dbAtStart,
                   startedAt>>

\* lines 186-190: UPDATE Stores SET DaysOpen = day + 1; a rejected statement
\* is not caught and changes nothing
UpdateDatabase ==
    /\ pc = "PERSISTING"
    /\ \E outcome \in DatabaseOutcomes :
          /\ trace' = Append(trace, [op |-> "write", outcome |-> outcome,
                                     value |-> NextDaysOpen(day)])
          /\ IF outcome = "ok"
             THEN /\ db' = UpdateDaysOpen(db, NextDaysOpen(day), PLAZA_BONITA_ID)
                  /\ pc' = "DONE"
             ELSE /\ db' = db
                  /\ pc' = "ABORTED"
    /\ UNCHANGED <<now, zoneOk, resp, timeout, day, message, dbAtStart,
                   startedAt>>

Next ==
    \/ Trigger
    \/ FetchHours
    \/ DecideTimeout
    \/ ReadDaysOpen
    \/ Wait
    \/ SendDiscordMessage
    \/ UpdateDatabase

Spec == Init /\ [][Next]_vars

(***************************************************************************)
(* Vocabulary of the properties.                                           *)
(***************************************************************************)
Calls(op) == { i \in 1..Len(trace) : trace[i].op = op }
Sends == Calls("send")
Reads == Calls("read")
Writes == Calls("write")
FailedSends == { i \in Sends : trace[i].outcome # "ok" }

\* the timeout has been computed and the branch on it taken
Decided == pc \in {"TIMEOUT_DECIDED", "WAITING", "SENDING", "PERSISTING",
                   "DONE", "SKIPPED", "ABORTED"}

FetchSucceeded == resp # Undefined
FetchFailed == resp = Undefined

\* the stored counter, where a row exists
HasRow(table) == PLAZA_BONITA_ID \in DOMAIN table
Counter(table) == table[PLAZA_BONITA_ID]

\* the number a message announces: the digits between "... Day " and ": START"
EmbeddedDay(msg) ==
    StringToNumber(SubSeq(msg, Len(MessagePrefix) + 1,
                          Len(msg) - Len(MessageSuffix)))

\* the hours map of a fetched response has no entry for the day the
\* invocation started on
WeekdayKeyMissing ==
    /\ FetchSucceeded /\ zoneOk
    /\ resp.results # Undefined
    /\ resp.results.location # Undefined
    /\ WeekdayLong(ValidDateTime(startedAt)) \notin DOMAIN resp.results.location

\* the hours map has an entry for the day, whose opening-hour token matches
\* neither <digits><am|pm> nor <digits> <am|pm>
TokenUnparseable ==
    /\ FetchSucceeded /\ zoneOk
    /\ resp.results # Undefined
    /\ resp.results.location # Undefined
    /\ WeekdayLong(ValidDateTime(startedAt)) \in DOMAIN resp.results.location
    /\ LET hours == resp.results.location[WeekdayLong(ValidDateTime(startedAt))]
       IN ~ParseOpening(OpeningToken(hours)).isValid

NegativeTimeout == IsNum(timeout) /\ timeout.value < 0

(***************************************************************************)
(* Properties.                                                             *)
(***************************************************************************)

\* C1: when the hours fetch succeeds but today's weekday key is missing from
\* the hours map, or the opening-hour token cannot be parsed, the timeout is
\* undefined and the invocation ends SKIPPED: the notifier is not invoked, the
\* database is neither read nor written, and the stored counter is unchanged.
C1_UnusableHoursSkip ==
    (Decided /\ (WeekdayKeyMissing \/ TokenUnparseable)) =>
        /\ timeout = Undefined
        /\ pc = "SKIPPED"
        /\ Sends = {} /\ Reads = {} /\ Writes = {}
        /\ db = dbAtStart

C1_Witness == pc = "SKIPPED" /\ TokenUnparseable /\ HasRow(db)

\* C2 (as claimed): after a failed hours fetch the timeout is a number, equal
\* to today 10:00 minus now (3 minutes only when that difference cannot be
\* produced), the invocation is never SKIPPED, and it always goes on to
\* attempt the send.
C2_FetchFailureAlwaysSends ==
    (Decided /\ FetchFailed) =>
        /\ IsNum(timeout)
        /\ timeout.value =
              IF zoneOk
              THEN (startedAt \div MsPerDay) * MsPerDay
                     + FALLBACK_HOUR * MsPerHour - startedAt
              ELSE FALLBACK_TIMEOUT
        /\ pc # "SKIPPED"
        /\ pc \in Terminal => Sends # {}

\* C3: the database write is requested at most once per invocation, only
\* after the notifier dispatch, and the value written is the number embedded
\* in the message sent in the same invocation, plus one.
C3_WriteOnceAfterSend ==
    /\ Cardinality(Writes) <= 1
    /\ \A w \in Writes :
          \E d \in Sends :
              /\ d < w
              /\ trace[w].value = EmbeddedDay(trace[d].content) + 1

C3_Witness ==
    /\ pc = "DONE"
    /\ \E w \in Writes, d \in Sends :
          /\ trace[w].value = 8
          /\ trace[d].content =
                <<"R", "o", "u", "n", "d", "1", " ", "P", "l", "a", "z", "a",
                  " ", "B", "o", "n", "i", "t", "a", " ", "D", "a", "y", " ",
                  "7", ":", " ", "S", "T", "A", "R", "T">>
    /\ Counter(db) = 8

C5_FailedDispatchStillPersists ==
    FailedSends # {} => (pc = "PERSISTING" \/ Writes # {})

\* C6 (as claimed): whatever the collaborators answer, the invocation never
\* terminates abnormally with an uncaught error.
C6_NeverAborts == pc # "ABORTED"

C8_FetchFailureWaitsThreeMinutes ==
    /\ (Decided /\ FetchFailed) => timeout = Num(FALLBACK_TIMEOUT)
    /\ FetchFailed => \A i \in Calls("wait") : trace[i].delay = FALLBACK_TIMEOUT

\* C9: over any sequence of invocations the stored counter is a non-negative
\* integer that is never decremented: an invocation leaves it as it was or
\* adds exactly one.
C9_CounterStepsByZeroOrOne ==
    /\ DOMAIN db = DOMAIN dbAtStart
    /\ \A s \in DOMAIN db :
          /\ db[s] \in Nat
          /\ db[s] = dbAtStart[s] \/ db[s] = dbAtStart[s] + 1

C9_Witness ==
    /\ pc = "DONE"
    /\ HasRow(db) /\ Counter(db) = Counter(dbAtStart) + 1
    /\ Counter(dbAtStart) = 8

\* C10: the number announced in the message is the stored counter, unmodified,
\* whenever a row exists for the store; only without one is it the estimate
\* ceil(days elapsed since the opening instant) + 1.
C10_AnnouncedDay ==
    \A d \in Sends :
        EmbeddedDay(trace[d].content) =
            IF HasRow(dbAtStart) THEN Counter(dbAtStart)
            ELSE 1 + CHOOSE k \in -1..(MaxDay + 2) :
                         /\ k * MsPerDay >= startedAt - OPENING_DATE
                         /\ (k - 1) * MsPerDay < startedAt - OPENING_DATE

C10_Witness ==
    /\ Sends # {}
    /\ HasRow(dbAtStart) /\ Counter(dbAtStart) = 0
    /\ message = getMessage(0)
    /\ startedAt > OPENING_DATE

\* the hours text the fetched response holds for the day the invocation
\* started on, when it holds one
HasTodaysHours ==
    /\ FetchSucceeded /\ zoneOk
    /\ resp.results # Undefined
    /\ resp.results.location # Undefined
    /\ WeekdayLong(ValidDateTime(startedAt)) \in DOMAIN resp.results.location
TodaysHours == resp.results.location[WeekdayLong(ValidDateTime(startedAt))]

\* the three formats in use on the site
KnownFormats ==
    { <<"1", "0", "A", "M", " ", "-", " ", "2", "A", "M">>,
      <<"1", "0", "a", "m", "-", "2", "a", "m">>,
      <<"1", "0", "a", "m", " ", "t", "o", " ", "2", "a", "m">> }

\* 10:00:00.000 on the calendar day of instant t
TenOClockOn(t) == (t \div MsPerDay) * MsPerDay + 10 * MsPerHour

\* C11: for each of the three known formats the opening-time parser resolves
\* the same instant, today at 10:00:00.000 in the zone; a timeout computed
\* from such a text is that instant minus now.
C11_KnownFormatsOpenAtTen ==
    zoneOk =>
        /\ \A text \in KnownFormats :
              getOpeningTime(text, now, zoneOk)
                  = Return(ValidDateTime(TenOClockOn(now)))
        /\ (Decided /\ HasTodaysHours /\ TodaysHours \in KnownFormats) =>
              timeout = Num(TenOClockOn(startedAt) - startedAt)

C11_Witness ==
    /\ pc = "TIMEOUT_DECIDED"
    /\ HasTodaysHours
    /\ TodaysHours = <<"1", "0", "a", "m", " ", "t", "o", " ", "2", "a", "m">>
    /\ startedAt = MsPerDay + 9 * MsPerHour
    /\ timeout = Num(MsPerHour)

\* the day number of this invocation came from the date estimate: the read
\* completed and found no row
EstimateUsed ==
    /\ \E r \in Reads : trace[r].outcome = "ok"
    /\ ~HasRow(dbAtStart)

SameCalendarDay(t, u) == t \div MsPerDay = u \div MsPerDay

\* C12 (as claimed): without a stored value, every instant of the opening
\* day's calendar date, before or after 10:00, gives day number 1.
C12_EpochDayIsDayOne ==
    (EstimateUsed /\ SameCalendarDay(startedAt, OPENING_DATE)) => day = 1

\* C13 (as claimed): the estimate is a function of the calendar date: any two
\* instants of the same calendar day give the same number.
C13_EstimateDependsOnDateOnly ==
    EstimateUsed =>
        \A t \in StartInstants :
            SameCalendarDay(t, startedAt) => getFallbackDaysOpen(t) = day

\* C14: without a stored value, at exactly k whole days after the opening
\* instant (k >= 0) the estimate is k + 1.
C14_WholeDaysGiveKPlusOne ==
    /\ \A k \in 0..(MaxDay + 3) :
          getFallbackDaysOpen(OPENING_DATE + k * MsPerDay) = k + 1
    /\ (EstimateUsed /\ (startedAt - OPENING_DATE) % MsPerDay = 0) =>
          /\ day = (startedAt - OPENING_DATE) \div MsPerDay + 1
          /\ message = getMessage((startedAt - OPENING_DATE) \div MsPerDay + 1)

C14_Witness ==
    /\ EstimateUsed
    /\ startedAt = OPENING_DATE + 2 * MsPerDay
    /\ day = 3
    /\ Sends # {}

\* what the hours source answered in this invocation
Fetched == Calls("fetch") # {}
FetchOutcome == trace[CHOOSE i \in Calls("fetch") : TRUE].outcome

\* network error, non-success status, body that is not JSON, success flag false
RejectedByGetBusinessHours(o) ==
    \/ o.threw
    \/ ~o.ok
    \/ o.body = NotJson
    \/ ~o.body.success

\* a 2xx JSON body with a true success flag but no results or no location map
SuccessWithoutHoursMap(o) ==
    /\ ~RejectedByGetBusinessHours(o)
    /\ (o.body.results = Undefined \/ o.body.results.location = Undefined)

\* the timeout of the fetch-failure policy: today 10:00 minus now, or the
\* constant when the runtime cannot produce that difference
FallbackPolicyTimeout ==
    IF zoneOk THEN Num(TenOClockOn(startedAt) - startedAt)
    ELSE Num(FALLBACK_TIMEOUT)

\* C15 (as claimed): every kind of hours-source failure, a body with a true
\* success flag but no usable results/location map included, leads to
\* TIMEOUT_DECIDED with the fallback timeout and never to SKIPPED.
C15_EveryFailureUsesFallback ==
    (Fetched /\ Decided
      /\ (RejectedByGetBusinessHours(FetchOutcome)
            \/ SuccessWithoutHoursMap(FetchOutcome))) =>
        /\ pc # "SKIPPED"
        /\ timeout = FallbackPolicyTimeout

\* C15 (amended): a network error, a non-success status, a body that is not
\* JSON and a false success flag lead to TIMEOUT_DECIDED with the fallback
\* timeout and never to SKIPPED; a successful response with a true success
\* flag but no results or location map gives an undefined timeout and SKIPPED.
C15_RejectedResponsesUseFallback ==
    /\ (Fetched /\ RejectedByGetBusinessHours(FetchOutcome)) =>
          /\ resp = Undefined
          /\ Decided => (pc # "SKIPPED" /\ timeout = FallbackPolicyTimeout)
    /\ (Fetched /\ Decided /\ SuccessWithoutHoursMap(FetchOutcome)) =>
          /\ timeout = Undefined
          /\ pc = "SKIPPED"

C15_Witness ==
    /\ pc = "TIMEOUT_DECIDED"
    /\ Fetched
    /\ ~FetchOutcome.threw /\ ~FetchOutcome.ok
    /\ FetchOutcome.body # NotJson
    /\ FetchOutcome.body.success
    /\ FetchOutcome.body.results # Undefined
    /\ zoneOk
    /\ timeout = Num(TenOClockOn(startedAt) - startedAt)

Waits == Calls("wait")
Fetches == Calls("fetch")

\* C16: on every path, those where the dispatch or the write fails included,
\* the notifier is invoked at most once and the hours source is queried at
\* most once per invocation.
C16_AtMostOnce ==
    /\ Cardinality(Sends) <= 1
    /\ Cardinality(Fetches) <= 1

C16_Witness ==
    /\ pc = "ABORTED"
    /\ Cardinality(Sends) = 1 /\ Cardinality(Fetches) = 1
    /\ \E d \in Sends : trace[d].outcome = "rejected"
    /\ \E w \in Writes : trace[w].outcome = "threw"

ResolvedOpening ==
    (startedAt \div MsPerDay) * MsPerDay
        + ParseOpening(OpeningToken(TodaysHours)).hour.value * MsPerHour

\* C18: with a defined timeout t the wait before the dispatch is max(t, 0):
\* when the hours were fetched and parsed and the opening lies in the future
\* the notifier is not invoked before the opening instant; when t is zero or
\* negative the notifier is invoked with no wait.
C18_WaitIsMaxOfTimeoutAndZero ==
    /\ \A w \in Waits :
          /\ IsNum(timeout)
          /\ trace[w].delay = IF timeout.value > 0 THEN timeout.value ELSE 0
          /\ now = startedAt + trace[w].delay
    /\ \A d \in Sends :
          /\ (HasTodaysHours /\ timeout.value > 0) =>
                /\ trace[d].at >= ResolvedOpening
                /\ trace[d].at = startedAt + timeout.value
          /\ timeout.value <= 0 => trace[d].at = startedAt

C18_Witness ==
    /\ pc = "PERSISTING"
    /\ HasTodaysHours
    /\ TodaysHours = <<"1", "1", " ", "a", "m", " ", "-", " ", "2", " ", "a", "m">>
    /\ startedAt = 10 * MsPerHour + 30 * MsPerMinute
    /\ \E d \in Sends : trace[d].at = 11 * MsPerHour

\* C19: the invocation never creates a counter row: once the store has no
\* row it never has one, also after a send and a write that both succeed,
\* and every message sent without a row announces the date estimate.
C19_NoRowIsNeverCreated ==
    /\ [][(~HasRow(db)) => (~HasRow(db'))]_vars
    /\ [](\A d \in Sends :
            (~HasRow(db)) =>
                EmbeddedDay(trace[d].content) = getFallbackDaysOpen(startedAt))

C19_Witness ==
    /\ pc = "DONE"
    /\ ~HasRow(dbAtStart) /\ ~HasRow(db)
    /\ \E d \in Sends : trace[d].outcome = "ok"
    /\ \E w \in Writes : trace[w].outcome = "ok" /\ trace[w].value = day + 1
    /\ startedAt >= MsPerDay

====
